---- MODULE Spec2Model ----
(***************************************************************************)
(* Model of the Todo REST API: the /api/todos router (src/routes/todos.js) *)
(* and its five handlers (src/controllers/todoController.js).              *)
(*                                                                         *)
(* Encoding.  JavaScript `undefined` (an absent body or query field) is    *)
(* the string "undefined".  Object ids are integers: an id >= 0 is a       *)
(* well-formed ObjectId string, a negative id is a string that is not one. *)
(* Id 0 is well formed and never allocated.  Instants are integers.  The    *)
(* JSON value null of a body field, and a null path of a document, is the  *)
(* string "null".                                                          *)
(***************************************************************************)
EXTENDS Integers, Sequences, FiniteSets, TLC

VARIABLES todos,    \* the Todo collection: a set of documents
          nextId,   \* the next ObjectId the driver generates
          now,      \* the clock (millisecond instants)
          req,      \* the last request received
          resp,     \* the response sent to it
          scan,     \* the pages a client has read with consecutive list requests
          nodeEnv,  \* process.env.NODE_ENV
          pending   \* the updateTodo calls between their findOne and their save

vars == <<todos, nextId, now, req, resp, scan, nodeEnv, pending>>

\* ---------------------------------------------------------------- bounds
MaxTodos == 2      \* documents ever created in one behaviour of Spec, SpecList
MaxFieldTodos == 1 \* documents ever created in one behaviour of SpecUpdate
MaxPageTodos == 4  \* documents ever created in one behaviour of SpecPages
MaxClock == 1      \* instants 0..MaxClock of SpecPages
MaxPasswordLen == 6 \* longest password of SpecSignup
MaxPending == 1    \* updateTodo calls in flight at once in SpecRace

\* ---------------------------------------------------------------- values
Undef == "undefined"
NoUser == "nobody"

Tokens == {"tokA", "tokB", "bad"}

BadId == -1
FreshId == 0

Priorities == {"low", "medium", "high"}

NoBody == [title |-> Undef, description |-> Undef, completed |-> Undef,
           priority |-> Undef, dueDate |-> Undef, user |-> Undef]
NoQuery == [page |-> Undef, limit |-> Undef, completed |-> Undef, priority |-> Undef]

\* ---------------------------------------------------------------- helpers
Abs(n) == IF n < 0 THEN -n ELSE n

Min(a, b) == IF a < b THEN a ELSE b

\* Math.ceil(a / b) of JavaScript for b # 0: the quotient rounded towards
\* +infinity (-0 counts as 0).  \div of TLA+ rounds towards -infinity.
MathCeilDiv(a, b) ==
    LET n == IF b < 0 THEN -a ELSE a
        d == Abs(b)
    IN  IF n % d = 0 THEN n \div d ELSE (n \div d) + 1

\* parseInt of the query strings the model sends; a string with no entry
\* parses to NaN.
IntOf == [x \in {"0", "1", "2", "3", "-1", "-2", "1000"} |->
            CASE x = "0" -> 0 [] x = "1" -> 1 [] x = "2" -> 2 [] x = "3" -> 3
              [] x = "-1" -> -1 [] x = "-2" -> -2 [] x = "1000" -> 1000]

\* parseInt(s) || dflt : NaN and 0 are falsy.
ParseIntOr(s, dflt) ==
    IF s \in DOMAIN IntOf /\ IntOf[s] # 0 THEN IntOf[s] ELSE dflt

\* new Date(s) for the date strings the model sends, as the ISO instant the
\* document serialises to.
NewDate(s) ==
    CASE s = "2024-01-15" -> "2024-01-15T00:00:00.000Z"
      [] s = "2024-02-01" -> "2024-02-01T00:00:00.000Z"
      [] OTHER -> "Invalid Date"

IsISO8601(s) == s \in {"2024-01-15", "2024-02-01"}

\* isBoolean of express-validator (non strict) and the Boolean cast of the schema
IsBoolean(s) == s \in {"true", "false"}
CastBoolean(s) == (s = "true")

IsMongoId(id) == id >= 0

\* ---------------------------------------------------------------- middleware
\* Authentication middleware: resolves the bearer token to the user it was
\* issued to; any other token is rejected with 401.
TokenUser(tok) ==
    CASE tok = "tokA" -> "A"
      [] tok = "tokB" -> "B"
      [] OTHER -> NoUser

\* The validation chains of the router: the fields each one reports.
createTodoValidation(r) ==
    {f \in {"title"} : r.body.title \in {Undef, ""}}
    \cup {f \in {"priority"} : r.body.priority # Undef /\ r.body.priority \notin Priorities}
    \cup {f \in {"dueDate"} : r.body.dueDate # Undef /\ ~IsISO8601(r.body.dueDate)}

updateTodoValidation(r) ==
    {f \in {"id"} : ~IsMongoId(r.id)}
    \cup {f \in {"completed"} : r.body.completed # Undef /\ ~IsBoolean(r.body.completed)}
    \cup {f \in {"priority"} : r.body.priority # Undef /\ r.body.priority \notin Priorities}
    \cup {f \in {"dueDate"} : r.body.dueDate # Undef /\ ~IsISO8601(r.body.dueDate)}

todoIdValidation(r) == {f \in {"id"} : ~IsMongoId(r.id)}

\* The validation chain of POST /api/auth/signup.  A username and a password
\* are sequences of characters.
UsernameMin == 3
UsernameMax == 30
PasswordMin == 6

WordChars == {"a", "b", "c", "A", "1", "_"}

IsEmail(s) == s \in {"a@x.io"}

signupValidation(b) ==
    {f \in {"username"} :
        \/ Len(b.username) \notin UsernameMin..UsernameMax
        \/ \E i \in 1..Len(b.username) : b.username[i] \notin WordChars}
    \cup {f \in {"email"} : ~IsEmail(b.email)}
    \cup {f \in {"password"} : Len(b.password) < PasswordMin}

\* The middleware in front of each handler, in the order the router runs it:
\* router.use(auth) first, then the route's validation chain.
ValidationOf(route) ==
    CASE route = "GET /" -> <<>>
      [] route = "GET /:id" -> <<"todoIdValidation">>
      [] route = "POST /" -> <<"createTodoValidation">>
      [] route = "PUT /:id" -> <<"updateTodoValidation">>
      [] route = "DELETE /:id" -> <<"todoIdValidation">>

\* Faulty variant: router.use(auth) registered after the routes
MiddlewareOf_AuthLast(route) == ValidationOf(route) \o <<"auth">>

MiddlewareOf(route) == <<"auth">> \o ValidationOf(route)

\* One middleware acting on the request context.
RunOne(m, r, ctx) ==
    CASE m = "auth" ->
           IF TokenUser(r.token) = NoUser
           THEN [ctx EXCEPT !.ran = Append(@, m), !.rejected = TRUE]
           ELSE [ctx EXCEPT !.ran = Append(@, m), !.user = TokenUser(r.token)]
      [] m = "createTodoValidation" ->
           [ctx EXCEPT !.ran = Append(@, m), !.errors = @ \cup createTodoValidation(r)]
      [] m = "updateTodoValidation" ->
           [ctx EXCEPT !.ran = Append(@, m), !.errors = @ \cup updateTodoValidation(r)]
      [] m = "todoIdValidation" ->
           [ctx EXCEPT !.ran = Append(@, m), !.errors = @ \cup todoIdValidation(r)]

RECURSIVE RunChain(_, _, _)
RunChain(chain, r, ctx) ==
    IF chain = <<>> \/ ctx.rejected THEN ctx
    ELSE RunChain(Tail(chain), r, RunOne(Head(chain), r, ctx))

\* The context a request reaches its handler with (or is rejected with).
Before(r) ==
    RunChain(MiddlewareOf(r.route), r,
             [user |-> NoUser, errors |-> {}, ran |-> <<>>, rejected |-> FALSE])

\* ---------------------------------------------------------------- responses
Reply(status, success, message) ==
    [status |-> status, success |-> success, message |-> message,
     todo |-> {}, todos |-> <<>>, total |-> 0, page |-> 0, limit |-> 0, pages |-> 0,
     errors |-> {}, error |-> Undef, stack |-> Undef, ran |-> <<>>, ops |-> <<>>]

Unauthorized(ctx) ==
    [Reply(401, FALSE, "Access denied. No token provided.") EXCEPT !.ran = ctx.ran]

\* Faulty variant: the 404 envelope with success: true
NotFound_Success(ctx, h, ops) ==
    [Reply(404, TRUE, "Todo not found") EXCEPT !.ran = Append(ctx.ran, h), !.ops = ops]

NotFound(ctx, h, ops) ==
    [Reply(404, FALSE, "Todo not found") EXCEPT !.ran = Append(ctx.ran, h), !.ops = ops]

ValidationFailed(ctx, h) ==
    [Reply(400, FALSE, "Validation failed") EXCEPT
        !.errors = ctx.errors, !.ran = Append(ctx.ran, h)]

ServerError(ctx, h, message, detail, ops) ==
    [Reply(500, FALSE, message) EXCEPT
        !.error = detail, !.ran = Append(ctx.ran, h), !.ops = ops]

\* The global error handler of the application: the envelope for an error
\* no route handled.  An error without a status or a message has 0 and "".
GlobalErrorHandlerReply(error, env) ==
    [Reply(IF error.status # 0 THEN error.status ELSE 500, FALSE,
           IF error.message # "" THEN error.message ELSE "Internal server error")
     EXCEPT !.stack = IF env = "development" THEN error.stack ELSE Undef,
            !.ran = <<"globalErrorHandler">>]

\* ---------------------------------------------------------------- store
\* Faulty variant: the lookup by id alone, without the owner
FindOne_AnyOwner(store, id, user) == {t \in store : t.id = id}

\* Todo.findOne({_id, user})
FindOne(store, id, user) == {t \in store : t.id = id /\ t.user = user}

\* Faulty variant: filter.completed = Boolean(req.query.completed)
BuildFilter_Truthy(user, q) ==
    [user |-> user,
     hasCompleted |-> q.completed # Undef,
     completed |-> q.completed # "",
     hasPriority |-> q.priority \notin {Undef, ""},
     priority |-> q.priority]

\* the filter object of getAllTodos
BuildFilter(user, q) ==
    [user |-> user,
     hasCompleted |-> q.completed # Undef,
     completed |-> q.completed = "true",
     hasPriority |-> q.priority \notin {Undef, ""},
     priority |-> q.priority]

\* Faulty variant: a filter that lost its user field
Matches_NoOwner(t, f) ==
    /\ f.hasCompleted => t.completed = f.completed
    /\ f.hasPriority => t.priority = f.priority

Matches(t, f) ==
    /\ t.user = f.user
    /\ f.hasCompleted => t.completed = f.completed
    /\ f.hasPriority => t.priority = f.priority

\* Todo.find(filter) / Todo.countDocuments(filter)
Find(store, f) == {t \in store : Matches(t, f)}
CountDocuments(store, f) == Cardinality(Find(store, f))

\* .sort({createdAt: -1}): every order of the documents with createdAt
\* descending.  Documents with equal createdAt come in an order the sort key
\* does not fix, and each query may return a different one.
RECURSIVE SortCreatedAtDesc(_)
SortCreatedAtDesc(S) ==
    IF S = {} THEN {<<>>}
    ELSE UNION { {<<x>> \o rest : rest \in SortCreatedAtDesc(S \ {x})} :
                 x \in {y \in S : \A z \in S : y.createdAt >= z.createdAt} }

\* .skip(skip).limit(limit): a negative limit is sent as its absolute value,
\* limit 0 is no limit.
SkipLimit(s, skip, limit) ==
    LET last == IF limit = 0 THEN Len(s) ELSE Min(Len(s), skip + Abs(limit))
    IN  IF skip + 1 > last THEN <<>> ELSE SubSeq(s, skip + 1, last)

\* schema validation of save(): a title is required
SchemaValid(doc) == doc.title \notin {Undef, "", "null"}

\* Faulty variant: the due date assigned whether or not the body carries one
AssignFields_DueDateAlways(old, body) ==
    [old EXCEPT
        !.title = IF body.title # Undef THEN body.title ELSE @,
        !.description = IF body.description # Undef THEN body.description ELSE @,
        !.completed = IF body.completed # Undef THEN CastBoolean(body.completed) ELSE @,
        !.priority = IF body.priority # Undef THEN body.priority ELSE @,
        !.dueDate = IF body.dueDate \notin {Undef, "", "null"}
                    THEN NewDate(body.dueDate) ELSE "null"]

\* the assignments of updateTodo to the document it found
AssignFields(old, body) ==
    [old EXCEPT
        !.title = IF body.title # Undef THEN body.title ELSE @,
        !.description = IF body.description # Undef THEN body.description ELSE @,
        !.completed = IF body.completed # Undef THEN CastBoolean(body.completed) ELSE @,
        !.priority = IF body.priority # Undef THEN body.priority ELSE @,
        !.dueDate = IF body.dueDate # Undef
                    THEN (IF body.dueDate \notin {"", "null"}
                          THEN NewDate(body.dueDate) ELSE "null")
                    ELSE @]

\* todo.save() of a document read as `old` and since assigned to `new`: the
\* paths that were modified are written to the stored document of that id.
Save(store, old, new) ==
    {IF t.id = old.id
     THEN [k \in DOMAIN t |-> IF new[k] # old[k] THEN new[k] ELSE t[k]]
     ELSE t : t \in store}

\* Faulty variant: the owner and the completed flag taken from the body
NewTodo_FromBody(body, user, id, t) ==
    [id |-> id, user |-> IF body.user # Undef THEN body.user ELSE user,
     title |-> body.title,
     description |-> body.description,
     completed |-> IF body.completed # Undef THEN CastBoolean(body.completed) ELSE FALSE,
     priority |-> IF body.priority \in {Undef, ""} THEN "medium" ELSE body.priority,
     dueDate |-> IF body.dueDate \in {Undef, ""} THEN Undef ELSE NewDate(body.dueDate),
     createdAt |-> t]

\* Faulty variant: no default for an omitted priority
NewTodo_NoDefault(body, user, id, t) ==
    [id |-> id, user |-> user,
     title |-> body.title,
     description |-> body.description,
     completed |-> FALSE,
     priority |-> body.priority,
     dueDate |-> IF body.dueDate \in {Undef, ""} THEN Undef ELSE NewDate(body.dueDate),
     createdAt |-> t]

\* the document createTodo builds; completed is the schema default
NewTodo(body, user, id, t) ==
    [id |-> id, user |-> user,
     title |-> body.title,
     description |-> body.description,
     completed |-> FALSE,
     priority |-> IF body.priority \in {Undef, ""} THEN "medium" ELSE body.priority,
     dueDate |-> IF body.dueDate \in {Undef, ""} THEN Undef ELSE NewDate(body.dueDate),
     createdAt |-> t]

\* ---------------------------------------------------------------- handlers
\* Each handler maps the store and the request context to the response and
\* the store it leaves.
getAllTodos(store, r, ctx, sorted) ==
    LET h == "getAllTodos"
        page == ParseIntOr(r.query.page, 1)
        limit == ParseIntOr(r.query.limit, 10)
        skip == (page - 1) * limit
        filter == BuildFilter(ctx.user, r.query)
    IN  IF ctx.user = NoUser
        THEN ServerError(ctx, h, "Server error while fetching todos", "TypeError", <<>>)
        ELSE IF skip < 0
        THEN ServerError(ctx, h, "Server error while fetching todos",
                         "MongoServerError", <<"find">>)
        ELSE LET total == CountDocuments(store, filter)
             IN  [Reply(200, TRUE, "Todos retrieved successfully") EXCEPT
                     !.todos = SkipLimit(sorted, skip, limit),
                     !.total = total, !.page = page, !.limit = limit,
                     !.pages = MathCeilDiv(total, limit),
                     !.ran = Append(ctx.ran, h),
                     !.ops = <<"find", "countDocuments">>]

getTodoById(store, r, ctx) ==
    LET h == "getTodoById"
        msg == "Server error while fetching todo"
    IN  IF ctx.user = NoUser THEN ServerError(ctx, h, msg, "TypeError", <<>>)
        ELSE IF ~IsMongoId(r.id) THEN ServerError(ctx, h, msg, "CastError", <<"findOne">>)
        ELSE IF FindOne(store, r.id, ctx.user) = {} THEN NotFound(ctx, h, <<"findOne">>)
        ELSE [Reply(200, TRUE, "Todo retrieved successfully") EXCEPT
                 !.todo = FindOne(store, r.id, ctx.user),
                 !.ran = Append(ctx.ran, h), !.ops = <<"findOne">>]

createTodo(store, r, ctx, id, t) ==
    LET h == "createTodo"
        msg == "Server error while creating todo"
        doc == NewTodo(r.body, ctx.user, id, t)
    IN  IF ctx.errors # {} THEN [resp |-> ValidationFailed(ctx, h), store |-> store]
        ELSE IF ctx.user = NoUser
        THEN [resp |-> ServerError(ctx, h, msg, "TypeError", <<>>), store |-> store]
        ELSE IF ~SchemaValid(doc)
        THEN [resp |-> ServerError(ctx, h, msg, "ValidationError", <<"save">>),
              store |-> store]
        ELSE [resp |-> [Reply(201, TRUE, "Todo created successfully") EXCEPT
                           !.todo = {doc}, !.ran = Append(ctx.ran, h),
                           !.ops = <<"save">>],
              store |-> store \cup {doc}]

\* Faulty variant: the document is looked up before validationResult is read
updateTodo_FindFirst(store, r, ctx) ==
    LET h == "updateTodo"
        msg == "Server error while updating todo"
        found == FindOne(store, r.id, ctx.user)
    IN  IF ctx.user = NoUser
        THEN [resp |-> ServerError(ctx, h, msg, "TypeError", <<>>), store |-> store]
        ELSE IF found = {}
        THEN [resp |-> NotFound(ctx, h, <<"findOne">>), store |-> store]
        ELSE IF ctx.errors # {}
        THEN [resp |-> [ValidationFailed(ctx, h) EXCEPT !.ops = <<"findOne">>],
              store |-> store]
        ELSE LET old == CHOOSE t \in found : TRUE
                 new == AssignFields(old, r.body)
             IN  IF ~SchemaValid(new)
                 THEN [resp |-> ServerError(ctx, h, msg, "ValidationError",
                                            <<"findOne", "save">>),
                       store |-> store]
                 ELSE [resp |-> [Reply(200, TRUE, "Todo updated successfully") EXCEPT
                                    !.todo = {new}, !.ran = Append(ctx.ran, h),
                                    !.ops = <<"findOne", "save">>],
                       store |-> Save(store, old, new)]

updateTodo(store, r, ctx) ==
    LET h == "updateTodo"
        msg == "Server error while updating todo"
        found == FindOne(store, r.id, ctx.user)
    IN  IF ctx.errors # {} THEN [resp |-> ValidationFailed(ctx, h), store |-> store]
        ELSE IF ctx.user = NoUser
        THEN [resp |-> ServerError(ctx, h, msg, "TypeError", <<>>), store |-> store]
        ELSE IF found = {}
        THEN [resp |-> NotFound(ctx, h, <<"findOne">>), store |-> store]
        ELSE LET old == CHOOSE t \in found : TRUE
                 new == AssignFields(old, r.body)
             IN  IF ~SchemaValid(new)
                 THEN [resp |-> ServerError(ctx, h, msg, "ValidationError",
                                            <<"findOne", "save">>),
                       store |-> store]
                 ELSE [resp |-> [Reply(200, TRUE, "Todo updated successfully") EXCEPT
                                    !.todo = {new}, !.ran = Append(ctx.ran, h),
                                    !.ops = <<"findOne", "save">>],
                       store |-> Save(store, old, new)]

\* updateTodo up to the return of its findOne: either the response it ends
\* with there, or the document it goes on with.
updateTodoFindOne(store, r, ctx) ==
    LET h == "updateTodo"
        msg == "Server error while updating todo"
        found == FindOne(store, r.id, ctx.user)
        none == Reply(0, FALSE, "")
    IN  IF ctx.errors # {}
        THEN [done |-> TRUE, resp |-> ValidationFailed(ctx, h), found |-> {}]
        ELSE IF ctx.user = NoUser
        THEN [done |-> TRUE, resp |-> ServerError(ctx, h, msg, "TypeError", <<>>),
              found |-> {}]
        ELSE IF found = {}
        THEN [done |-> TRUE, resp |-> NotFound(ctx, h, <<"findOne">>), found |-> {}]
        ELSE [done |-> FALSE, resp |-> none, found |-> found]

\* Faulty variant: save() writes the whole document back, inserting it when
\* it is no longer stored
updateTodoSave_Upsert(store, r, ctx, old) ==
    LET h == "updateTodo"
        msg == "Server error while updating todo"
        new == AssignFields(old, r.body)
    IN  IF ~SchemaValid(new)
        THEN [resp |-> ServerError(ctx, h, msg, "ValidationError", <<"findOne", "save">>),
              store |-> store]
        ELSE [resp |-> [Reply(200, TRUE, "Todo updated successfully") EXCEPT
                           !.todo = {new}, !.ran = Append(ctx.ran, h),
                           !.ops = <<"findOne", "save">>],
              store |-> {t \in store : t.id # old.id} \cup {new}]

\* updateTodo from the return of its findOne: the assignments to the
\* document found and todo.save(), which validates the document and then
\* updates the stored document of that id, and fails when there is none.
updateTodoSave(store, r, ctx, old) ==
    LET h == "updateTodo"
        msg == "Server error while updating todo"
        new == AssignFields(old, r.body)
    IN  IF ~SchemaValid(new)
        THEN [resp |-> ServerError(ctx, h, msg, "ValidationError", <<"findOne", "save">>),
              store |-> store]
        ELSE IF \A t \in store : t.id # old.id
        THEN [resp |-> ServerError(ctx, h, msg, "DocumentNotFoundError",
                                   <<"findOne", "save">>),
              store |-> store]
        ELSE [resp |-> [Reply(200, TRUE, "Todo updated successfully") EXCEPT
                           !.todo = {new}, !.ran = Append(ctx.ran, h),
                           !.ops = <<"findOne", "save">>],
              store |-> Save(store, old, new)]

\* Faulty variant: answers 200 without removing the document
deleteTodo_NoRemove(store, r, ctx) ==
    LET h == "deleteTodo"
        msg == "Server error while deleting todo"
        found == FindOne(store, r.id, ctx.user)
    IN  IF ctx.user = NoUser
        THEN [resp |-> ServerError(ctx, h, msg, "TypeError", <<>>), store |-> store]
        ELSE IF ~IsMongoId(r.id)
        THEN [resp |-> ServerError(ctx, h, msg, "CastError", <<"findOneAndDelete">>),
              store |-> store]
        ELSE IF found = {}
        THEN [resp |-> NotFound(ctx, h, <<"findOneAndDelete">>), store |-> store]
        ELSE [resp |-> [Reply(200, TRUE, "Todo deleted successfully") EXCEPT
                           !.ran = Append(ctx.ran, h),
                           !.ops = <<"findOneAndDelete">>],
              store |-> store]

deleteTodo(store, r, ctx) ==
    LET h == "deleteTodo"
        msg == "Server error while deleting todo"
        found == FindOne(store, r.id, ctx.user)
    IN  IF ctx.user = NoUser
        THEN [resp |-> ServerError(ctx, h, msg, "TypeError", <<>>), store |-> store]
        ELSE IF ~IsMongoId(r.id)
        THEN [resp |-> ServerError(ctx, h, msg, "CastError", <<"findOneAndDelete">>),
              store |-> store]
        ELSE IF found = {}
        THEN [resp |-> NotFound(ctx, h, <<"findOneAndDelete">>), store |-> store]
        ELSE [resp |-> [Reply(200, TRUE, "Todo deleted successfully") EXCEPT
                           !.ran = Append(ctx.ran, h),
                           !.ops = <<"findOneAndDelete">>],
              store |-> store \ found]

\* ---------------------------------------------------------------- requests
\* What the id of a request names when it arrives (not visible to the handler).
Target(store, id, tok) ==
    IF \E t \in store : t.id = id /\ t.user = TokenUser(tok) THEN "own"
    ELSE IF \E t \in store : t.id = id THEN "foreign"
    ELSE "absent"

Request(route, tok, id, body, query) ==
    [route |-> route, token |-> tok, id |-> id, body |-> body, query |-> query,
     target |-> Target(todos, id, tok)]

IdsOf(docs) == [i \in 1..Len(docs) |-> docs[i].id]

NoScan ==
    [active |-> FALSE, key |-> [filter |-> BuildFilter(NoUser, NoQuery), limit |-> 0],
     first |-> 0, got |-> <<>>]

\* A client reading the list page after page: a successful list request for
\* the page after the last one, with the same filter and limit, extends the
\* scan; any other successful list request starts a new one, and a request
\* to another route ends it.
ScanAfterList(sc, r, ctx, rsp) ==
    LET key == [filter |-> BuildFilter(ctx.user, r.query), limit |-> rsp.limit]
    IN  IF rsp.status # 200 THEN sc
        ELSE IF sc.active /\ sc.key = key /\ rsp.page = sc.first + Len(sc.got)
        THEN [sc EXCEPT !.got = Append(@, IdsOf(rsp.todos))]
        ELSE [active |-> TRUE, key |-> key, first |-> rsp.page,
              got |-> <<IdsOf(rsp.todos)>>]

\* ---------------------------------------------------------------- actions
GetAllTodos(tok, q) ==
    LET r == Request("GET /", tok, FreshId, NoBody, q)
        ctx == Before(r)
    IN  /\ req' = r
        /\ resp' \in {IF ctx.rejected THEN Unauthorized(ctx)
                      ELSE getAllTodos(todos, r, ctx, sorted) :
                      sorted \in SortCreatedAtDesc(Find(todos, BuildFilter(ctx.user, q)))}
        /\ scan' = ScanAfterList(scan, r, ctx, resp')
        /\ UNCHANGED <<todos, nextId, now, nodeEnv, pending>>

GetTodoById(tok, id) ==
    LET r == Request("GET /:id", tok, id, NoBody, NoQuery)
        ctx == Before(r)
    IN  /\ req' = r
        /\ resp' = IF ctx.rejected THEN Unauthorized(ctx) ELSE getTodoById(todos, r, ctx)
        /\ scan' = NoScan
        /\ UNCHANGED <<todos, nextId, now, nodeEnv, pending>>

\* t is the instant the request is served at
CreateTodo(tok, body, t) ==
    LET r == Request("POST /", tok, FreshId, body, NoQuery)
        ctx == Before(r)
        out == IF ctx.rejected THEN [resp |-> Unauthorized(ctx), store |-> todos]
               ELSE createTodo(todos, r, ctx, nextId, t)
    IN  /\ t >= now
        /\ req' = r
        /\ resp' = out.resp
        /\ todos' = out.store
        /\ IF out.resp.status = 201
           THEN nextId' = nextId + 1 /\ now' = t
           ELSE UNCHANGED <<nextId, now>>
        /\ scan' = NoScan
        /\ UNCHANGED <<nodeEnv, pending>>

UpdateTodo(tok, id, body) ==
    LET r == Request("PUT /:id", tok, id, body, NoQuery)
        ctx == Before(r)
        out == IF ctx.rejected THEN [resp |-> Unauthorized(ctx), store |-> todos]
               ELSE updateTodo(todos, r, ctx)
    IN  /\ req' = r
        /\ resp' = out.resp
        /\ todos' = out.store
        /\ scan' = NoScan
        /\ UNCHANGED <<nextId, now, nodeEnv, pending>>

DeleteTodo(tok, id) ==
    LET r == Request("DELETE /:id", tok, id, NoBody, NoQuery)
        ctx == Before(r)
        out == IF ctx.rejected THEN [resp |-> Unauthorized(ctx), store |-> todos]
               ELSE deleteTodo(todos, r, ctx)
    IN  /\ req' = r
        /\ resp' = out.resp
        /\ todos' = out.store
        /\ scan' = NoScan
        /\ UNCHANGED <<nextId, now, nodeEnv, pending>>

\* An updateTodo call runs up to the return of its findOne; other requests
\* are served before it goes on.
UpdateFindOne(tok, id, body) ==
    LET r == Request("PUT /:id", tok, id, body, NoQuery)
        ctx == Before(r)
        out == IF ctx.rejected
               THEN [done |-> TRUE, resp |-> Unauthorized(ctx), found |-> {}]
               ELSE updateTodoFindOne(todos, r, ctx)
    IN  /\ Cardinality(pending) < MaxPending
        /\ req' = r
        /\ resp' = out.resp
        /\ pending' = IF out.done THEN pending
                      ELSE pending \cup {[r |-> r, ctx |-> ctx, old |-> t] : t \in out.found}
        /\ scan' = NoScan
        /\ UNCHANGED <<todos, nextId, now, nodeEnv>>

\* The updateTodo call p goes on from its findOne to its response.
UpdateSave(p) ==
    LET out == updateTodoSave(todos, p.r, p.ctx, p.old)
    IN  /\ p \in pending
        /\ req' = p.r
        /\ resp' = out.resp
        /\ todos' = out.store
        /\ pending' = pending \ {p}
        /\ scan' = NoScan
        /\ UNCHANGED <<nextId, now, nodeEnv>>

\* an error passed to next() reaches the global error handler
GlobalErrorHandler(error) ==
    /\ req' = Request("error", "bad", FreshId, NoBody, NoQuery)
    /\ resp' = GlobalErrorHandlerReply(error, nodeEnv)
    /\ scan' = NoScan
    /\ UNCHANGED <<todos, nextId, now, nodeEnv, pending>>

\* the signup validation chain runs on the request received
SignupValidation ==
    /\ req.route = "POST /auth/signup"
    /\ resp.ran = <<>>
    /\ resp' = [resp EXCEPT !.errors = signupValidation(req.body),
                            !.ran = <<"signupValidation">>]
    /\ UNCHANGED <<todos, nextId, now, req, scan, nodeEnv, pending>>

\* ---------------------------------------------------------------- inputs
Body(t, d, c, p, due) ==
    [title |-> t, description |-> d, completed |-> c, priority |-> p, dueDate |-> due,
     user |-> Undef]

\* a body that also carries a user field
WithUser(b, u) == [b EXCEPT !.user = u]

Query(pg, lim, c, p) == [page |-> pg, limit |-> lim, completed |-> c, priority |-> p]

\* Spec: all five routes, two owners, an unauthenticated caller
Ids == {BadId} \cup 1..MaxTodos

CreateBodies ==
    { Body("a", Undef, Undef, Undef, Undef),
      Body(Undef, "d", Undef, "urgent", Undef) }

UpdateBodies ==
    { Body(Undef, Undef, "true", Undef, Undef),
      Body(Undef, Undef, "maybe", Undef, Undef),
      Body("", Undef, Undef, Undef, Undef) }

Queries ==
    { NoQuery,
      Query("2", "1", Undef, Undef),
      Query(Undef, "-1", "true", Undef),
      Query(Undef, "1000", "false", "medium"),
      Query("-1", Undef, Undef, "high") }

\* SpecUpdate: one owner, every field of the body
FieldCreateBodies ==
    { Body("a", Undef, Undef, Undef, Undef),
      Body("a", "d", Undef, "high", "2024-01-15") }

FieldUpdateBodies ==
    { NoBody,
      Body("b", Undef, Undef, Undef, Undef),
      Body(Undef, "d", Undef, Undef, Undef),
      Body(Undef, Undef, "true", Undef, Undef),
      Body(Undef, Undef, Undef, "high", Undef),
      Body(Undef, Undef, Undef, Undef, "2024-01-15"),
      Body(Undef, Undef, Undef, Undef, "null"),
      Body(Undef, Undef, "false", "low", Undef) }

\* SpecList: the list route, two owners, filters and out-of-range values
ListCreateBodies ==
    { Body("a", Undef, Undef, Undef, Undef),
      Body("a", Undef, Undef, "high", Undef) }

ListQueries ==
    { NoQuery,
      Query("1", "1", Undef, Undef), Query("2", "1", Undef, Undef),
      Query("1", "-1", Undef, Undef), Query("2", "-1", Undef, Undef),
      Query("-1", "2", Undef, Undef), Query("abc", "1000", Undef, Undef),
      Query("0", "0", Undef, Undef),
      Query(Undef, Undef, "true", Undef), Query(Undef, Undef, "false", Undef),
      Query(Undef, Undef, Undef, "high"), Query(Undef, Undef, "true", "medium"),
      Query(Undef, Undef, "yes", ""), Query(Undef, "1", "false", "low") }

\* SpecPages: one owner reading the list page after page
PageQueries ==
    { Query("1", "1", Undef, Undef), Query("2", "1", Undef, Undef),
      Query("3", "1", Undef, Undef),
      Query("1", "2", Undef, Undef), Query("2", "2", Undef, Undef),
      Query("-2", "-1", Undef, Undef), Query("-1", "-1", Undef, Undef),
      Query("1", "1", "false", Undef), Query("2", "1", "false", Undef) }

\* SpecOwner: two owners, bodies that carry a user and a completed field
OwnerCreateBodies ==
    { Body("a", Undef, Undef, Undef, Undef),
      WithUser(Body("a", Undef, "true", Undef, Undef), "A"),
      WithUser(Body("a", Undef, "true", Undef, Undef), "B") }

OwnerUpdateBodies ==
    { WithUser(Body("b", Undef, Undef, Undef, Undef), "A"),
      WithUser(Body("b", Undef, Undef, Undef, Undef), "B"),
      WithUser(NoBody, "B") }

\* SpecRace: one owner, updates in two steps with deletes in between
RaceUpdateBodies ==
    { NoBody,
      Body("b", Undef, Undef, Undef, Undef),
      Body(Undef, Undef, Undef, "high", "2024-02-01"),
      Body(Undef, Undef, "true", Undef, Undef) }

\* SpecValidation: bodies and ids the validation chains of create and update
\* reject, one for each rule
InvalidCreateBodies ==
    { Body(Undef, "d", Undef, Undef, Undef),
      Body("", Undef, Undef, Undef, Undef),
      Body("a", Undef, Undef, "urgent", Undef),
      Body("a", Undef, Undef, Undef, "tomorrow") }

ValidationUpdateBodies ==
    { Body("b", Undef, Undef, Undef, Undef),
      Body(Undef, Undef, "maybe", Undef, Undef),
      Body(Undef, Undef, Undef, "urgent", Undef),
      Body(Undef, Undef, Undef, Undef, "tomorrow"),
      Body("b", Undef, Undef, Undef, "null") }

\* SpecEnv: one owner, the failures of every handler, every NODE_ENV
Envs == {"production", "development", "test"}

Errors ==
    { [status |-> 0, message |-> "connection lost", stack |-> "Error: connection lost"],
      [status |-> 0, message |-> "", stack |-> "Error"],
      [status |-> 400, message |-> "Unexpected token", stack |-> "SyntaxError"] }

EnvQueries == { NoQuery, Query("-1", Undef, Undef, Undef) }

EnvUpdateBodies ==
    { Body("b", Undef, Undef, Undef, Undef), Body("", Undef, Undef, Undef, Undef) }

\* SpecSignup: the signup validation chain on every password of up to
\* MaxPasswordLen characters out of an uppercase letter, a lowercase letter
\* and a digit
PasswordChars == {"A", "a", "1"}

Passwords == UNION {[1..n -> PasswordChars] : n \in 0..MaxPasswordLen}

Usernames == { <<"a", "b">>, <<"a", "b", "c">>, <<"a", "-", "c">> }

Emails == {"a@x.io", "a.x.io"}

SignupBodies ==
    [username : Usernames, email : Emails, password : Passwords]

\* ---------------------------------------------------------------- specification
Init ==
    /\ todos = {}
    /\ nextId = 1
    /\ now = 0
    /\ req = [route |-> "none", token |-> "bad", id |-> FreshId, body |-> NoBody,
              query |-> NoQuery, target |-> "absent"]
    /\ resp = Reply(0, FALSE, "")
    /\ scan = NoScan
    /\ nodeEnv = "development"
    /\ pending = {}

Next ==
    \E tok \in Tokens :
        \/ \E q \in Queries : GetAllTodos(tok, q)
        \/ \E id \in Ids : GetTodoById(tok, id)
        \/ \E b \in CreateBodies : nextId <= MaxTodos /\ CreateTodo(tok, b, now)
        \/ \E id \in Ids : \E b \in UpdateBodies : UpdateTodo(tok, id, b)
        \/ \E id \in Ids : DeleteTodo(tok, id)

Spec == Init /\ [][Next]_vars

NextUpdate ==
    \/ \E b \in FieldCreateBodies :
          nextId <= MaxFieldTodos /\ CreateTodo("tokA", b, now)
    \/ \E id \in 1..MaxFieldTodos : \E b \in FieldUpdateBodies :
          UpdateTodo("tokA", id, b)
    \/ \E id \in 1..MaxFieldTodos : GetTodoById("tokA", id)

SpecUpdate == Init /\ [][NextUpdate]_vars

NextList ==
    \/ \E b \in ListCreateBodies : nextId <= MaxTodos /\ CreateTodo("tokA", b, now)
    \/ nextId <= MaxTodos
          /\ CreateTodo("tokB", Body("a", Undef, Undef, Undef, Undef), now)
    \/ \E id \in 1..MaxTodos :
          UpdateTodo("tokA", id, Body(Undef, Undef, "true", Undef, Undef))
    \/ \E tok \in {"tokA", "tokB"} : \E q \in ListQueries : GetAllTodos(tok, q)

SpecList == Init /\ [][NextList]_vars

NextPages ==
    \/ \E t \in now..MaxClock :
          nextId <= MaxPageTodos
          /\ CreateTodo("tokA", Body("a", Undef, Undef, Undef, Undef), t)
    \/ UpdateTodo("tokA", 1, Body(Undef, Undef, "true", Undef, Undef))
    \/ \E q \in PageQueries : GetAllTodos("tokA", q)

SpecPages == Init /\ [][NextPages]_vars

NextOwner ==
    \E tok \in {"tokA", "tokB"} :
        \/ \E b \in OwnerCreateBodies : nextId <= MaxTodos /\ CreateTodo(tok, b, now)
        \/ \E id \in 1..MaxTodos : \E b \in OwnerUpdateBodies : UpdateTodo(tok, id, b)
        \/ \E id \in 1..MaxTodos : GetTodoById(tok, id)

SpecOwner == Init /\ [][NextOwner]_vars

NextRace ==
    \/ nextId <= MaxFieldTodos
          /\ CreateTodo("tokA", Body("a", Undef, Undef, Undef, Undef), now)
    \/ \E id \in 1..MaxFieldTodos : \E b \in RaceUpdateBodies : UpdateFindOne("tokA", id, b)
    \/ \E p \in pending : UpdateSave(p)
    \/ \E id \in 1..MaxFieldTodos : DeleteTodo("tokA", id)
    \/ \E id \in 1..MaxFieldTodos : GetTodoById("tokA", id)

SpecRace == Init /\ [][NextRace]_vars

NextValidation ==
    \E tok \in {"tokA", "tokB"} :
        \/ nextId <= MaxFieldTodos
              /\ CreateTodo(tok, Body("a", Undef, Undef, Undef, Undef), now)
        \/ \E b \in InvalidCreateBodies : CreateTodo(tok, b, now)
        \/ \E id \in Ids : \E b \in ValidationUpdateBodies :
              id <= MaxFieldTodos /\ UpdateTodo(tok, id, b)

SpecValidation == Init /\ [][NextValidation]_vars

InitEnv ==
    /\ todos = {}
    /\ nextId = 1
    /\ now = 0
    /\ req = [route |-> "none", token |-> "bad", id |-> FreshId, body |-> NoBody,
              query |-> NoQuery, target |-> "absent"]
    /\ resp = Reply(0, FALSE, "")
    /\ scan = NoScan
    /\ nodeEnv \in Envs
    /\ pending = {}

NextEnv ==
    \/ \E q \in EnvQueries : GetAllTodos("tokA", q)
    \/ \E id \in Ids : id <= MaxFieldTodos /\ GetTodoById("tokA", id)
    \/ nextId <= MaxFieldTodos
          /\ CreateTodo("tokA", Body("a", Undef, Undef, Undef, Undef), now)
    \/ \E id \in 1..MaxFieldTodos : \E b \in EnvUpdateBodies : UpdateTodo("tokA", id, b)
    \/ \E id \in Ids : id <= MaxFieldTodos /\ DeleteTodo("tokA", id)
    \/ \E e \in Errors : GlobalErrorHandler(e)

SpecEnv == InitEnv /\ [][NextEnv]_vars

InitSignup ==
    /\ todos = {}
    /\ nextId = 1
    /\ now = 0
    /\ req \in {[route |-> "POST /auth/signup", body |-> b] : b \in SignupBodies}
    /\ resp = Reply(0, FALSE, "")
    /\ scan = NoScan
    /\ nodeEnv = "development"
    /\ pending = {}

NextSignup == SignupValidation

SpecSignup == InitSignup /\ [][NextSignup]_vars

\* ================================================================ claims
Caller == TokenUser(req.token)

Returned == resp.todo \cup {resp.todos[i] : i \in 1..Len(resp.todos)}

\* what the client sees of a response
Visible(rsp) == [rsp EXCEPT !.ran = <<>>, !.ops = <<>>]

\* C1 -- Ownership isolation on reads: whatever requests came before, every
\* task a getTodoById or getAllTodos response carries is owned by the caller
\* of that request, for every page, limit, completed and priority parameter.
C1_OwnershipIsolation ==
    req.route \in {"GET /", "GET /:id"} => \A t \in Returned : t.user = Caller

C1_Witness ==
    /\ req.route = "GET /"
    /\ resp.status = 200
    /\ req.query.completed # Undef
    /\ Len(resp.todos) >= 1
    /\ \E t \in todos : t.user # Caller /\ Matches_NoOwner(t, BuildFilter(Caller, req.query))

\* C2 -- Cross-owner frame: a request by caller A (create, update or delete,
\* also one naming the id of another user's task) leaves the tasks of every
\* other user present and unchanged in all fields.
C2_CrossOwnerFrame ==
    [][ {t \in todos : t.user # TokenUser(req'.token)}
        = {t \in todos' : t.user # TokenUser(req'.token)} ]_vars

C2_Witness ==
    /\ req.route \in {"PUT /:id", "DELETE /:id"}
    /\ Caller # NoUser
    /\ req.target = "foreign"
    /\ resp.status = 404
    /\ \E t \in todos : t.id = req.id /\ t.user # Caller

C4_AuthGateFirst ==
    /\ [] ( req.route # "none" =>
              /\ Len(resp.ran) >= 1
              /\ resp.ran[1] = "auth"
              /\ \A i \in 2..Len(resp.ran) : resp.ran[i] # "auth"
              /\ Caller = NoUser =>
                    /\ resp.status = 401
                    /\ resp.ran = <<"auth">>
                    /\ resp.ops = <<>> )
    /\ [][ TokenUser(req'.token) = NoUser => todos' = todos ]_vars

C4_Witness ==
    /\ req.route = "DELETE /:id"
    /\ Caller = NoUser
    /\ \E t \in todos : t.id = req.id
    /\ resp.status = 401

\* ---------------------------------------------------------------- list claims
Listed == req.route = "GET /" /\ resp.status = 200

\* the ids on page i of the scan, and the creation time of a listed id
Seen(i) == {scan.got[i][j] : j \in 1..Len(scan.got[i])}

CreatedAtOf(id) == (CHOOSE t \in todos : t.id = id).createdAt

\* n = ceil(a / b)
IsCeil(n, a, b) ==
    IF b > 0 THEN n * b >= a /\ (n - 1) * b < a
    ELSE n * b <= a /\ (n - 1) * b > a

\* C5 -- Pagination invariant: with no write in between, for a limit l >= 1
\* the pages 1..ceil(total/l) of getAllTodos hold, by id, exactly the owner's
\* tasks that match the filter: no task on two pages and none missing, also
\* when tasks share a creation time.
C5_PaginationInvariant ==
    LET full == {t.id : t \in Find(todos, scan.key.filter)}
        np == MathCeilDiv(Cardinality(full), scan.key.limit)
    IN  ( /\ scan.active
          /\ scan.first = 1
          /\ scan.key.limit >= 1
          /\ Len(scan.got) >= np )
        => /\ UNION {Seen(i) : i \in 1..np} = full
           /\ \A i, j \in 1..np : i < j => Seen(i) \cap Seen(j) = {}

\* C6 -- List filtering: completed=true returns only the caller's completed
\* tasks (completed=false only the open ones), a supplied priority only the
\* tasks of that priority, an absent field constrains nothing, and total is
\* the number of the caller's tasks that match, before pagination.
C6_ListFiltering ==
    Listed =>
        LET q == req.query
            supplied == q.priority \notin {Undef, ""}
            expected == {t \in todos :
                            /\ t.user = Caller
                            /\ q.completed = "true" => t.completed
                            /\ q.completed = "false" => ~t.completed
                            /\ supplied => t.priority = q.priority}
        IN  /\ q.completed = "true" => \A t \in Returned : t.completed
            /\ supplied => \A t \in Returned : t.priority = q.priority
            /\ q.completed \in {Undef, "true", "false"} =>
                  /\ Returned \subseteq expected
                  /\ resp.total = Cardinality(expected)
                  /\ Abs(resp.limit) >= resp.total /\ resp.page = 1
                        => Returned = expected

C6_Witness ==
    /\ Listed
    /\ req.query.completed = "true"
    /\ resp.total = 1
    /\ Len(resp.todos) = 1
    /\ \E t \in todos : t.user = Caller /\ ~t.completed

\* C7 -- List ordering: the tasks of a page come newest first, and every
\* task on page p was created no earlier than every task on page p+1.
C7_ListOrdering ==
    /\ Listed => \A i, j \in 1..Len(resp.todos) :
                    i < j => resp.todos[i].createdAt >= resp.todos[j].createdAt
    /\ scan.active =>
          \A i \in 1..(Len(scan.got) - 1) :
              \A a \in Seen(i), b \in Seen(i + 1) : CreatedAtOf(a) >= CreatedAtOf(b)

\* C8 -- Page/limit range: a list request is either rejected before the
\* store is queried, or served with page >= 1 and limit within 1..100.
C8_PageLimitRange ==
    (req.route = "GET /" /\ Caller # NoUser) =>
        IF resp.status = 200
        THEN resp.page >= 1 /\ resp.limit \in 1..100
        ELSE resp.ops = <<>>

\* C9 -- Page count: in a successful list response pages = ceil(total/limit)
\* for the total and limit of that response, and pages is never negative.
C9_PageCount ==
    Listed => IsCeil(resp.pages, resp.total, resp.limit) /\ resp.pages >= 0

\* ---------------------------------------------------------------- update claims
BodyFields == {"title", "description", "completed", "priority", "dueDate"}

\* C10 -- Partial update frame: a successful updateTodo leaves every field
\* absent from the body, the id and the creation time of the task as they
\* were; {completed: true} alone keeps title, description, priority, dueDate.
C10_PartialUpdateFrame ==
    [][ (req'.route = "PUT /:id" /\ resp'.status = 200) =>
          \E old \in todos, new \in todos' :
              /\ old.id = req'.id /\ new.id = req'.id
              /\ resp'.todo = {new}
              /\ new.createdAt = old.createdAt
              /\ \A f \in BodyFields : req'.body[f] = Undef => new[f] = old[f]
              /\ \A t \in todos' : t.id = req'.id => t = new ]_vars

C10_Witness ==
    /\ req.route = "PUT /:id"
    /\ resp.status = 200
    /\ req.body = Body(Undef, Undef, "true", Undef, Undef)
    /\ \E t \in todos :
          /\ t.id = req.id /\ t.completed
          /\ t.title = "a" /\ t.description = "d" /\ t.priority = "high"
          /\ t.dueDate = NewDate("2024-01-15")

\* C11 -- Explicit clearing: an updateTodo by the owner whose body carries
\* dueDate: null passes the PUT validation chain, is answered 200 and leaves
\* the stored task with no due date (a body without dueDate leaves the due
\* date as it was, see C10).
C11_ExplicitClear ==
    ( /\ req.route = "PUT /:id"
      /\ req.target = "own"
      /\ req.body = Body(Undef, Undef, Undef, Undef, "null") )
    => /\ "dueDate" \notin updateTodoValidation(req)
       /\ resp.status = 200
       /\ \A t \in todos : t.id = req.id => t.dueDate = "null"

\* ---------------------------------------------------------------- round trip
\* the day (since 1970-01-01) a submitted date string or a serialised date
\* denotes at 00:00 UTC
DayOf(s) ==
    CASE s \in {"2024-01-15", "2024-01-15T00:00:00.000Z"} -> 19737
      [] s \in {"2024-02-01", "2024-02-01T00:00:00.000Z"} -> 19754
      [] OTHER -> -1

\* C12 -- Create/get round trip: when a createTodo by caller A has answered
\* 201, a getTodoById by A of the id it returned answers 200 with a record
\* that equals the body on title, description, priority and dueDate (the
\* same instant) where they were submitted, has priority medium where it was
\* omitted, completed = false and owner A.
C12_CreateGetRoundTrip ==
    [][ ( /\ req.route = "POST /" /\ resp.status = 201
          /\ req'.route = "GET /:id" /\ req'.token = req.token
          /\ \E c \in resp.todo : c.id = req'.id )
        => /\ resp'.status = 200
           /\ \E g \in resp'.todo :
                 /\ g.id = req'.id
                 /\ g.title = req.body.title
                 /\ g.description = req.body.description
                 /\ g.priority = IF req.body.priority = Undef THEN "medium"
                                 ELSE req.body.priority
                 /\ IF req.body.dueDate = Undef THEN g.dueDate = Undef
                    ELSE DayOf(g.dueDate) = DayOf(req.body.dueDate)
                 /\ DayOf(req.body.dueDate) >= 0 \/ req.body.dueDate = Undef
                 /\ g.completed = FALSE
                 /\ g.user = TokenUser(req.token) ]_vars

C12_Witness ==
    /\ req.route = "GET /:id"
    /\ resp.status = 200
    /\ \E g \in resp.todo :
          /\ g.id = req.id /\ g.user = Caller
          /\ g.title = "a" /\ g.description = Undef /\ g.priority = "medium"
          /\ g.dueDate = Undef /\ g.completed = FALSE

\* ---------------------------------------------------------------- delete claims
\* Ids are allocated in sequence and a document leaves the collection only
\* by a delete: the ids allocated and no longer stored are the deleted ones.
Deleted(store, next) == {i \in 1..(next - 1) : \A t \in store : t.id # i}

\* the request names an id that was deleted before it arrived
NamesDeleted ==
    /\ req.route \in {"GET /:id", "PUT /:id", "DELETE /:id"}
    /\ req.target = "absent"
    /\ req.id \in 1..(nextId - 1)

\* C13 -- Delete semantics as claimed, read for an authenticated caller and
\* a well-formed id: deleteTodo answers 200 exactly when a task of that id
\* owned by the caller existed, 404 otherwise; after a 200 delete every
\* later getTodoById, updateTodo or deleteTodo of that id answers 404.
C13_DeleteSemantics ==
    (Caller # NoUser /\ IsMongoId(req.id)) =>
        /\ req.route = "DELETE /:id" =>
               resp.status = IF req.target = "own" THEN 200 ELSE 404
        /\ NamesDeleted => resp.status = 404

\* C13 (amended) -- for an authenticated caller and a well-formed id,
\* deleteTodo answers 200 exactly when a task of that id owned by the caller
\* existed, and removes it, and 404 otherwise with the store unchanged; once
\* a delete has answered 200, every later getTodoById and deleteTodo of that
\* id, and every later updateTodo of it whose body passes validation (400
\* when it does not), by any authenticated caller answers 404, the id never
\* names a stored task again and no list response carries it.
C13_DeleteSemanticsAmended ==
    /\ [] ( /\ (NamesDeleted /\ Caller # NoUser) =>
                  resp.status = IF req.route = "PUT /:id"
                                   /\ updateTodoValidation(req) # {}
                                THEN 400 ELSE 404
            /\ \A t \in Returned : t.id \notin Deleted(todos, nextId) )
    /\ [][ /\ ( /\ req'.route = "DELETE /:id"
                /\ TokenUser(req'.token) # NoUser
                /\ IsMongoId(req'.id) )
              => LET own == {t \in todos : t.id = req'.id
                                          /\ t.user = TokenUser(req'.token)}
                 IN  /\ resp'.status = IF own # {} THEN 200 ELSE 404
                     /\ todos' = todos \ own
           /\ Deleted(todos, nextId) \subseteq Deleted(todos', nextId') ]_vars

C13_Witness ==
    /\ NamesDeleted
    /\ req.route = "GET /:id"
    /\ Caller # NoUser
    /\ resp.status = 404
    /\ todos # {}

\* C14 -- Malformed id handling: a GET /:id or DELETE /:id request of an
\* authenticated caller whose id fails todoIdValidation is answered 400 with
\* the per-field errors of the chain, never 500.
C14_MalformedId400 ==
    ( /\ req.route \in {"GET /:id", "DELETE /:id"}
      /\ Caller # NoUser
      /\ todoIdValidation(req) # {} )
    => /\ resp.status = 400
       /\ resp.errors = todoIdValidation(req)

\* ---------------------------------------------------------------- error detail
\* the messages of the errors the handlers catch or the application receives
ErrorMessages ==
    {"TypeError", "CastError", "MongoServerError", "ValidationError",
     "DocumentNotFoundError"} \cup ({e.message : e \in Errors} \ {""})

CarriesDetail(rsp) ==
    rsp.error # Undef \/ rsp.stack # Undef \/ rsp.message \in ErrorMessages

\* C15 -- Diagnostic detail: in production mode no 500 response, of a todo
\* handler or of the global error handler, carries the message or the stack
\* of the underlying error.
C15_DiagnosticDetail ==
    (nodeEnv = "production" /\ resp.status = 500) => ~CarriesDetail(resp)

\* ---------------------------------------------------------------- signup
HasChar(pw, c) == \E i \in 1..Len(pw) : pw[i] = c

\* C16 -- Password policy: the signup validation chain accepts a password
\* only if it has an uppercase letter, a lowercase letter and a digit.
C16_PasswordPolicy ==
    (resp.ran = <<"signupValidation">> /\ "password" \notin resp.errors)
    => /\ HasChar(req.body.password, "A")
       /\ HasChar(req.body.password, "a")
       /\ HasChar(req.body.password, "1")

\* ---------------------------------------------------------------- validation
\* what the validation chain of the request's route reports
ChainErrors(r) ==
    CASE r.route = "POST /" -> createTodoValidation(r)
      [] r.route = "PUT /:id" -> updateTodoValidation(r)
      [] OTHER -> {}

\* C17 -- Validation before store: when the validation chain of createTodo
\* or updateTodo reports an error, the handler answers 400 with
\* success:false and the errors of the chain, reads and writes nothing in
\* the store, and the stored tasks are unchanged.
C17_ValidationBeforeStore ==
    /\ [] ( ( /\ req.route \in {"POST /", "PUT /:id"}
              /\ Caller # NoUser
              /\ ChainErrors(req) # {} )
            => /\ resp.status = 400
               /\ resp.success = FALSE
               /\ resp.errors = ChainErrors(req)
               /\ resp.ops = <<>> )
    /\ [][ ( /\ req'.route \in {"POST /", "PUT /:id"}
             /\ ChainErrors(req') # {} )
           => todos' = todos ]_vars

C17_Witness ==
    /\ req.route = "PUT /:id"
    /\ req.target = "own"
    /\ "dueDate" \in ChainErrors(req)
    /\ resp.status = 400
    /\ resp.ops = <<>>

\* ---------------------------------------------------------------- envelope
Handlers == {"getAllTodos", "getTodoById", "createTodo", "updateTodo", "deleteTodo"}

\* C18 -- Response envelope: every request that reaches a todo handler is
\* answered by that handler, on every path including store failures, and
\* the response has success:false with a message exactly when its status is
\* 400, 404 or 500 and success:true exactly when its status is 200 or 201.
C18_ResponseEnvelope ==
    (req.route # "none" /\ Caller # NoUser) =>
        /\ resp.status \in {200, 201, 400, 404, 500}
        /\ resp.ran # <<>> /\ resp.ran[Len(resp.ran)] \in Handlers
        /\ Cardinality({i \in 1..Len(resp.ran) : resp.ran[i] \in Handlers}) = 1
        /\ (resp.success = FALSE /\ resp.message \notin {"", Undef})
              <=> resp.status \in {400, 404, 500}
        /\ resp.success = TRUE <=> resp.status \in {200, 201}

C18_Witness ==
    /\ req.route = "PUT /:id"
    /\ Caller # NoUser
    /\ resp.status = 500
    /\ resp.ops = <<"findOne", "save">>
    /\ resp.success = FALSE

\* ---------------------------------------------------------------- owner
\* C19 -- Owner invariant: the task a createTodo stores is owned by the
\* authenticated caller of that request and has completed = false, whatever
\* user or completed value the body carries, and no request, whatever its
\* body, changes the owner of a stored task.
C19_OwnerInvariant ==
    [][ /\ (req'.route = "POST /" /\ resp'.status = 201) =>
              \E d \in todos' :
                  /\ todos' = todos \cup {d} /\ d \notin todos
                  /\ resp'.todo = {d}
                  /\ d.user = TokenUser(req'.token)
                  /\ d.completed = FALSE
        /\ req'.route # "POST /" => {t.id : t \in todos'} \subseteq {t.id : t \in todos}
        /\ \A t \in todos, u \in todos' : t.id = u.id => u.user = t.user ]_vars

C19_Witness ==
    /\ req.route = "POST /"
    /\ resp.status = 201
    /\ req.body.user = "B" /\ req.body.completed = "true"
    /\ Caller = "A"
    /\ \E d \in resp.todo : d \in todos /\ d.user = "A" /\ d.completed = FALSE

\* ---------------------------------------------------------------- race
\* C20 -- Update/delete race: when a deleteTodo of the same task by the
\* same owner completes between the findOne and the save of an updateTodo,
\* the update does not answer 200 and the task is not stored when it has
\* finished; a deleted task is never stored again.
C20_UpdateDeleteRace ==
    [][ /\ \A p \in pending \ pending' :
              (\A t \in todos : t.id # p.old.id)
              => /\ req' = p.r
                 /\ resp'.status \notin {0, 200}
                 /\ \A t \in todos' : t.id # p.old.id
        /\ Deleted(todos, nextId) \subseteq Deleted(todos', nextId') ]_vars

C20_Witness ==
    /\ req.route = "PUT /:id"
    /\ req.target = "own"
    /\ req.body = Body("b", Undef, Undef, Undef, Undef)
    /\ resp.status = 500
    /\ resp.error = "DocumentNotFoundError"
    /\ req.id \in Deleted(todos, nextId)
====
